---- MODULE Spec2Model ----
(***************************************************************************)
(* Model of the USB transfer batch lifecycle of libusbhost                *)
(* (uspace/lib/usbhost/src/usb_transfer_batch.c).                          *)
(*                                                                         *)
(* Two execution contexts run the code: "sub", the submission (driver     *)
(* request) context, and "irq", the completion context.  Every function   *)
(* is modelled statement by statement so that the interleavings of the    *)
(* two contexts and the order of the statements inside                    *)
(* usb_transfer_batch_destroy are visible.                                 *)
(*                                                                         *)
(* The second part models the display server's client object              *)
(* (uspace/srv/hid/display/client.c): the per-client window list with the *)
(* display-wide window id counter, and the per-client event queue.        *)
(***************************************************************************)
EXTENDS Integers, Sequences, FiniteSets

\* ------------------------------------------------------------------ bounds
MaxBatches == 2
MaxSize == 1
MaxToggle == 1
MaxAllocFail == 1
MaxMisuse == 1
MaxWindows == 3
MaxWndId == 3
MaxEvents == 2
MaxGets == 2

\* --------------------------------------------------------------- universes
Contexts == {"sub", "irq"}
Endpoints == {"ep1", "ep2"}
Batches == 1..MaxBatches
\* the null endpoint pointer
NULL == "NULL"
\* the null batch pointer (batches are numbered from 1)
NullBatch == 0

\* errno values carried in batch->error
Errors == {"EOK", "ESTALL", "EAGAIN"}
\* outcome the backend records when the hardware retires a batch
HwErrors == {"EOK", "ESTALL"}
\* toggle_reset_mode values
ResetModes == {"RESET_NONE", "RESET_EP", "RESET_ALL"}
\* return values of the bus's reset_toggle operation
BusResults == {"EOK", "EIO"}
Sizes == 0..MaxSize

\* device target of an endpoint (address, endpoint number)
TargetOf(e) == <<"target", e>>

\* calloc(1, sizeof(usb_transfer_batch_t)): every field is zero
ZeroBatch ==
  [ep |-> NULL, error |-> "EOK", transfered_size |-> 0, on_complete |-> FALSE,
   toggle_reset_mode |-> "RESET_NONE", target |-> NULL]

\* display clients (ds_client_t objects of one display)
Clients == {"cl1", "cl2"}
\* ds_window_t objects; NullWnd is the null window pointer
Windows == 1..MaxWindows
NullWnd == 0
\* wnd->client of a window that is in no client's list
NoClient == "NoClient"
\* window ids a caller may look up
WndIds == 0..MaxWndId
\* keyboard events carried by a queue entry
KbdEvents == {"KEY_PRESS", "KEY_RELEASE"}
\* what ds_client_get_event stores through ewindow and event
Payloads == [window : Windows, event : KbdEvents]

VARIABLES
  bus_ops,      \* which optional operations the bus overrides
  refcnt,       \* endpoint reference counts
  owner,        \* the endpoint's registration still holds its reference
  torn,         \* the endpoint's count reached zero: teardown was triggered
  heap,         \* batch memory: "unused", "live" or "released"
  batch,        \* the fields of each usb_transfer_batch_t
  stage,        \* where the batch is in the driver/backend protocol
  how,          \* which call completed the batch: "none", "finish", "abort"
  hw_size,      \* the transferred size the backend recorded for the batch
  pc,           \* position of each context inside the code
  cur,          \* the batch pointer each context is working on
  arg_ep,       \* the ep argument of the create call in progress
  ref_before,   \* during a create call: refcnt of arg_ep at its entry
  alloc_ok,     \* result of the allocation in the create call in progress
  ret,          \* <<p>> once the context's last create call returned p
  cb_calls,     \* recorded invocations of on_complete, per batch
  cb_status,    \* status returned by the last on_complete invocation
  del_refs,     \* number of endpoint_del_ref calls made for each batch
  frees,        \* number of times each batch's memory was released
  released_by,  \* the operations that released it: "batch_destroy", "free"
  rt_calls,     \* number of usb_transfer_batch_reset_toggle calls per batch
  rt_ret,       \* return value of the last such call per batch
  bus_resets,   \* recorded invocations of the bus's reset_toggle per batch
  bus_rets,     \* the results the bus's reset_toggle returned, per batch
  alloc_fails,  \* number of create calls whose allocation failed
  misuse,       \* number of completion calls made on an already claimed batch
  stale,        \* the context's current call was entered on released memory
  stale_ever,   \* some completion call was entered on released memory
  crashed,      \* an assertion failed or an access trapped
  windows,      \* client->windows: the windows of each client, in list order
  wnd_client,   \* wnd->client
  wnd_id,       \* wnd->id
  next_wnd_id,  \* display->next_wnd_id
  ids_given,    \* the ids ds_client_add_window has assigned, in order
  find_ret,     \* arguments and result of the last ds_client_find_window
  events,       \* client->events: the linked ds_window_ev_t nodes, in order
  posted,       \* per client: payloads of the posts that returned EOK
  got,          \* per client: payloads ds_client_get_event returned with EOK
  get_ret,      \* result of the client's last get since its last post
  post_ret,     \* result of the client's last ds_client_post_kbd_event
  ev_posts,     \* number of post calls made
  ev_gets,      \* number of get calls made
  ds_crashed    \* the display server trapped

usbVars == <<bus_ops, refcnt, owner, torn, heap, batch, stage, how, hw_size, pc, cur,
          arg_ep, ref_before, alloc_ok, ret, cb_calls, cb_status, del_refs,
          frees, released_by, rt_calls, rt_ret, bus_resets, bus_rets, alloc_fails, misuse, stale,
          stale_ever, crashed>>
windowVars == <<windows, wnd_client, wnd_id, next_wnd_id, ids_given, find_ret>>
eventVars == <<events, posted, got, get_ret, post_ret, ev_posts, ev_gets,
               ds_crashed>>
displayVars == <<windowVars, eventVars>>

vars == <<usbVars, displayVars>>

\* groups used in UNCHANGED clauses
epVars == <<refcnt, owner, torn>>
createVars == <<arg_ep, ref_before, alloc_ok, ret, alloc_fails>>
finishVars == <<cb_calls, cb_status, del_refs, frees, released_by, how,
                hw_size>>
toggleVars == <<rt_calls, rt_ret, bus_resets, bus_rets>>
misuseVars == <<misuse, stale, stale_ever>>

Init ==
  /\ bus_ops \in {[batch_create |-> FALSE, batch_destroy |-> FALSE],
                  [batch_create |-> TRUE, batch_destroy |-> TRUE]}
  /\ refcnt = [e \in Endpoints |-> 1]
  /\ owner = [e \in Endpoints |-> TRUE]
  /\ torn = [e \in Endpoints |-> FALSE]
  /\ heap = [b \in Batches |-> "unused"]
  /\ batch = [b \in Batches |-> ZeroBatch]
  /\ stage = [b \in Batches |-> "none"]
  /\ how = [b \in Batches |-> "none"]
  /\ hw_size = [b \in Batches |-> 0]
  /\ pc = [c \in Contexts |-> "idle"]
  /\ cur = [c \in Contexts |-> NullBatch]
  /\ arg_ep = [c \in Contexts |-> NULL]
  /\ ref_before = [c \in Contexts |-> 0]
  /\ alloc_ok = [c \in Contexts |-> TRUE]
  /\ ret = [c \in Contexts |-> <<>>]
  /\ cb_calls = [b \in Batches |-> <<>>]
  /\ cb_status = [b \in Batches |-> "none"]
  /\ del_refs = [b \in Batches |-> 0]
  /\ frees = [b \in Batches |-> 0]
  /\ released_by = [b \in Batches |-> <<>>]
  /\ rt_calls = [b \in Batches |-> 0]
  /\ rt_ret = [b \in Batches |-> "none"]
  /\ bus_resets = [b \in Batches |-> <<>>]
  /\ bus_rets = [b \in Batches |-> <<>>]
  /\ alloc_fails = 0
  /\ misuse = 0
  /\ stale = [c \in Contexts |-> FALSE]
  /\ stale_ever = FALSE
  /\ crashed = FALSE
  /\ windows = [c \in Clients |-> <<>>]
  /\ wnd_client = [w \in Windows |-> NoClient]
  /\ wnd_id = [w \in Windows |-> 0]
  /\ next_wnd_id = 1
  /\ ids_given = <<>>
  /\ find_ret = [client |-> NoClient, id |-> 0, wnd |-> NullWnd]
  /\ events = [c \in Clients |-> <<>>]
  /\ posted = [c \in Clients |-> <<>>]
  /\ got = [c \in Clients |-> <<>>]
  /\ get_ret = [c \in Clients |-> "none"]
  /\ post_ret = [c \in Clients |-> "none"]
  /\ ev_posts = 0
  /\ ev_gets = 0
  /\ ds_crashed = FALSE

\* ------------------------------------------------------------- endpoint.h
\* endpoint_add_ref: atomic increment of the reference count
endpoint_add_ref(rc, e) == [rc EXCEPT ![e] = @ + 1]

\* endpoint_del_ref: atomic decrement of the reference count
endpoint_del_ref(rc, e) == [rc EXCEPT ![e] = @ - 1]

\* the count reaching zero in endpoint_del_ref triggers the teardown
endpoint_teardown(tn, rc, e) == [tn EXCEPT ![e] = @ \/ (rc[e] - 1 = 0)]

\* the next batch the allocator hands out
FreeSlots == {b \in Batches : heap[b] = "unused"}
NextSlot == CHOOSE b \in FreeSlots : \A o \in FreeSlots : b <= o

\* ------------------------------------------- usb_transfer_batch_create
\* entry of usb_transfer_batch_create(ep): assert(ep), look up batch_create
CreateCall(c, e) ==
  /\ ~crashed
  /\ c = "sub"
  /\ pc[c] = "idle"
  /\ owner[e] /\ ~torn[e]
  /\ FreeSlots # {}
  /\ arg_ep' = [arg_ep EXCEPT ![c] = e]
  /\ ref_before' = [ref_before EXCEPT ![c] = refcnt[e]]
  /\ alloc_ok' = [alloc_ok EXCEPT ![c] = TRUE]
  /\ ret' = [ret EXCEPT ![c] = <<>>]
  /\ cur' = [cur EXCEPT ![c] = NullBatch]
  /\ stale' = [stale EXCEPT ![c] = FALSE]
  /\ pc' = [pc EXCEPT ![c] = IF bus_ops.batch_create THEN "backend_create"
                                                      ELSE "create_alloc"]
  /\ UNCHANGED <<displayVars, bus_ops, epVars, heap, batch, stage, alloc_fails, finishVars,
                 toggleVars, misuse, stale_ever, crashed>>

\* generic path: batch = calloc(1, sizeof(usb_transfer_batch_t)), which may
\* return NULL; the result is passed to usb_transfer_batch_init unchecked
CreateAlloc(c, ok) ==
  /\ ~crashed
  /\ pc[c] = "create_alloc"
  /\ ~ok => alloc_fails < MaxAllocFail
  /\ alloc_ok' = [alloc_ok EXCEPT ![c] = ok]
  /\ IF ok
       THEN /\ heap' = [heap EXCEPT ![NextSlot] = "live"]
            /\ batch' = [batch EXCEPT ![NextSlot] = ZeroBatch]
            /\ cur' = [cur EXCEPT ![c] = NextSlot]
            /\ UNCHANGED alloc_fails
       ELSE /\ cur' = [cur EXCEPT ![c] = NullBatch]
            /\ alloc_fails' = alloc_fails + 1
            /\ UNCHANGED <<heap, batch>>
  /\ pc' = [pc EXCEPT ![c] = "init_addref"]
  /\ UNCHANGED <<displayVars, bus_ops, epVars, stage, arg_ep, ref_before, ret, finishVars,
                 toggleVars, misuseVars, crashed>>

\* override path: ops->batch_create(ep).  The backend allocates the batch
\* inside its own structure and initializes it with usb_transfer_batch_init;
\* when its allocation fails it returns NULL.
BackendBatchCreate(c, ok) ==
  /\ ~crashed
  /\ pc[c] = "backend_create"
  /\ ~ok => alloc_fails < MaxAllocFail
  /\ alloc_ok' = [alloc_ok EXCEPT ![c] = ok]
  /\ IF ok
       THEN /\ heap' = [heap EXCEPT ![NextSlot] = "live"]
            /\ batch' = [batch EXCEPT ![NextSlot] = ZeroBatch]
            /\ cur' = [cur EXCEPT ![c] = NextSlot]
            /\ pc' = [pc EXCEPT ![c] = "init_addref"]
            /\ UNCHANGED <<alloc_fails, ret, ref_before>>
       ELSE /\ cur' = [cur EXCEPT ![c] = NullBatch]
            /\ alloc_fails' = alloc_fails + 1
            /\ ret' = [ret EXCEPT ![c] = <<NullBatch>>]
            /\ ref_before' = [ref_before EXCEPT ![c] = 0]
            /\ pc' = [pc EXCEPT ![c] = "idle"]
            /\ UNCHANGED <<heap, batch>>
  /\ UNCHANGED <<displayVars, bus_ops, epVars, stage, arg_ep, finishVars, toggleVars,
                 misuseVars, crashed>>

\* --------------------------------------------- usb_transfer_batch_init
\* variant: the binding is forgotten
batch_bind_none(bt, e) == bt

\* variant: init also resets the toggle reset mode
batch_bind_clobber(bt, e) ==
  [bt EXCEPT !.ep = e, !.toggle_reset_mode = "RESET_ALL"]

\* batch->ep = ep
batch_bind(bt, e) == [bt EXCEPT !.ep = e]

\* variant: init leaves the acquisition to its caller
init_acquire_none(rc, e) == rc

\* endpoint_add_ref(ep): init acquires the batch's reference
init_acquire(rc, e) == endpoint_add_ref(rc, e)

\* assert(ep); endpoint_add_ref(ep);
InitAddRef(c) ==
  /\ ~crashed
  /\ pc[c] = "init_addref"
  /\ refcnt' = init_acquire(refcnt, arg_ep[c])
  /\ pc' = [pc EXCEPT ![c] = "init_bind"]
  /\ UNCHANGED <<displayVars, bus_ops, owner, torn, heap, batch, stage, cur, createVars,
                 finishVars, toggleVars, misuseVars, crashed>>

\* batch->ep = ep; and the return of the batch to the caller of create.
\* With batch == NULL the store is a null pointer dereference: the task
\* traps, or the store goes unnoticed and create returns NULL.
InitBind(c) ==
  /\ ~crashed
  /\ pc[c] = "init_bind"
  /\ IF cur[c] = NullBatch
       THEN /\ \E trap \in BOOLEAN :
                 IF trap
                   THEN /\ crashed' = TRUE
                        /\ UNCHANGED <<pc, ret>>
                   ELSE /\ ret' = [ret EXCEPT ![c] = <<NullBatch>>]
                        /\ pc' = [pc EXCEPT ![c] = "idle"]
                        /\ UNCHANGED crashed
            /\ UNCHANGED <<batch, stage>>
       ELSE /\ batch' = [batch EXCEPT ![cur[c]] = batch_bind(@, arg_ep[c])]
            /\ stage' = [stage EXCEPT ![cur[c]] = "created"]
            /\ ret' = [ret EXCEPT ![c] = <<cur[c]>>]
            /\ pc' = [pc EXCEPT ![c] = "idle"]
            /\ UNCHANGED crashed
  /\ ref_before' = [ref_before EXCEPT ![c] = 0]
  /\ UNCHANGED <<displayVars, bus_ops, epVars, heap, cur, arg_ep, alloc_ok, alloc_fails,
                 finishVars, toggleVars, misuseVars>>

\* ------------------------------------------------ driver and backend
\* the caller of create fills in the callback, the toggle reset mode and the
\* target and hands the batch to the backend
DriverSubmit(b, cb, m) ==
  /\ ~crashed
  /\ pc["sub"] = "idle"
  /\ stage[b] = "created"
  /\ batch' = [batch EXCEPT ![b] =
                 [@ EXCEPT !.on_complete = cb,
                           !.toggle_reset_mode = m,
                           !.target = TargetOf(batch[b].ep)]]
  /\ stage' = [stage EXCEPT ![b] = "submitted"]
  /\ UNCHANGED <<displayVars, bus_ops, epVars, heap, pc, cur, createVars, finishVars,
                 toggleVars, misuseVars, crashed>>

\* the hardware retires the batch: the backend records the outcome
HwComplete(b, err, sz) ==
  /\ ~crashed
  /\ pc["irq"] = "idle"
  /\ stage[b] = "submitted"
  /\ batch' = [batch EXCEPT ![b] =
                 [@ EXCEPT !.error = err, !.transfered_size = sz]]
  /\ hw_size' = [hw_size EXCEPT ![b] = sz]
  /\ stage' = [stage EXCEPT ![b] = "completed"]
  /\ UNCHANGED <<displayVars, bus_ops, epVars, heap, pc, cur, createVars, cb_calls,
                 cb_status, del_refs, frees, released_by, how, toggleVars,
                 misuseVars, crashed>>

\* the endpoint is unregistered: its registration drops its reference
OwnerRelease(e) ==
  /\ ~crashed
  /\ owner[e]
  /\ \A c \in Contexts :
       pc[c] \in {"create_alloc", "backend_create", "init_addref", "init_bind"}
         => arg_ep[c] # e
  /\ owner' = [owner EXCEPT ![e] = FALSE]
  /\ refcnt' = endpoint_del_ref(refcnt, e)
  /\ torn' = endpoint_teardown(torn, refcnt, e)
  /\ UNCHANGED <<displayVars, bus_ops, heap, batch, stage, pc, cur, createVars, finishVars,
                 toggleVars, misuseVars, crashed>>

\* ------------------------------------- usb_transfer_batch_reset_toggle
\* variant: only the mode is tested, a failed batch resets the toggle too
reset_toggle_mode_only(bt) == bt.toggle_reset_mode = "RESET_NONE"

\* variant: only the error is tested, mode RESET_NONE reaches the bus
reset_toggle_error_only(bt) == bt.error # "EOK"

\* the early return: batch->error != EOK || toggle_reset_mode == RESET_NONE
reset_toggle_returns_early(bt) ==
  bt.error # "EOK" \/ bt.toggle_reset_mode = "RESET_NONE"

\* variant: the toggle of the single endpoint is reset, whatever the mode
bus_reset_toggle_args_ep(bt) == <<bt.target, "RESET_EP">>

\* the arguments handed to bus_reset_toggle (after the bus of batch->ep)
bus_reset_toggle_args(bt) == <<bt.target, bt.toggle_reset_mode>>

\* usb_transfer_batch_reset_toggle(batch), called by the backend between the
\* hardware outcome and finish
ResetToggle(b, r) ==
  /\ ~crashed
  /\ pc["irq"] = "idle"
  /\ stage[b] = "completed"
  /\ rt_calls[b] < MaxToggle
  /\ rt_calls' = [rt_calls EXCEPT ![b] = @ + 1]
  /\ IF reset_toggle_returns_early(batch[b])
       THEN /\ rt_ret' = [rt_ret EXCEPT ![b] = "EOK"]
            /\ UNCHANGED <<bus_resets, bus_rets>>
       ELSE /\ bus_resets' = [bus_resets EXCEPT ![b] =
                                 Append(@, bus_reset_toggle_args(batch[b]))]
            /\ bus_rets' = [bus_rets EXCEPT ![b] = Append(@, r)]
            /\ rt_ret' = [rt_ret EXCEPT ![b] = r]
  /\ UNCHANGED <<displayVars, bus_ops, epVars, heap, batch, stage, pc, cur, createVars,
                 finishVars, misuseVars, crashed>>

\* --------------------------------------------- usb_transfer_batch_finish
\* entry of usb_transfer_batch_finish(batch): assert(batch), assert(batch->ep)
FinishCall(c, b) ==
  /\ ~crashed
  /\ c = "irq"
  /\ pc[c] = "idle"
  /\ stage[b] = "completed"
  /\ heap[b] = "live" /\ batch[b].ep # NULL
  /\ stage' = [stage EXCEPT ![b] = "claimed"]
  /\ how' = [how EXCEPT ![b] = "finish"]
  /\ cur' = [cur EXCEPT ![c] = b]
  /\ stale' = [stale EXCEPT ![c] = FALSE]
  /\ pc' = [pc EXCEPT ![c] = "finish_cb"]
  /\ UNCHANGED <<displayVars, bus_ops, epVars, heap, batch, createVars, cb_calls, cb_status,
                 del_refs, frees, released_by, hw_size, toggleVars, misuse,
                 stale_ever, crashed>>

\* the arguments of on_complete (after on_complete_data)
on_complete_args(bt) == <<bt.error, bt.transfered_size>>

\* variant: the callback pointer is not tested
invoke_on_complete_unchecked(log, bt) ==
  Append(log, <<bt.error, bt.transfered_size>>)

\* variant: the callback is invoked a second time
invoke_on_complete_twice(log, bt) ==
  IF bt.on_complete
    THEN Append(Append(log, <<bt.error, bt.transfered_size>>),
                <<bt.error, bt.transfered_size>>)
    ELSE log

\* if (batch->on_complete) batch->on_complete(...): the recorded invocations
invoke_on_complete(log, bt) ==
  IF bt.on_complete THEN Append(log, on_complete_args(bt)) ELSE log

\* variant: a failing callback makes finish return early
after_callback_escalate(st) ==
  IF st = "fail" THEN "idle" ELSE "destroy_delref"

\* after the callback, whatever its status (a non-zero one is logged):
\* usb_transfer_batch_destroy(batch)
after_callback(st) == "destroy_delref"

\* the callback runs and returns a status, which is only logged
FinishCb(c, st) ==
  /\ ~crashed
  /\ pc[c] = "finish_cb"
  /\ cb_calls' = [cb_calls EXCEPT ![cur[c]] = invoke_on_complete(@, batch[cur[c]])]
  /\ cb_status' = [cb_status EXCEPT ![cur[c]] =
                       IF batch[cur[c]].on_complete THEN st ELSE @]
  /\ pc' = [pc EXCEPT ![c] = after_callback(st)]
  /\ UNCHANGED <<displayVars, bus_ops, epVars, heap, batch, stage, cur, createVars,
                 del_refs, frees, released_by, how, hw_size, toggleVars,
                 misuseVars, crashed>>

\* --------------------------------------------- usb_transfer_batch_abort
\* variant: abort also clears the transferred size
abort_outcome_cleared(bt) ==
  [bt EXCEPT !.error = "EAGAIN", !.transfered_size = 0]

\* batch->error = EAGAIN
abort_outcome(bt) == [bt EXCEPT !.error = "EAGAIN"]

\* entry of usb_transfer_batch_abort(batch): assert(batch), assert(batch->ep)
AbortCall(c, b) ==
  /\ ~crashed
  /\ c = "irq"
  /\ pc[c] = "idle"
  /\ stage[b] \in {"submitted", "completed"}
  /\ heap[b] = "live" /\ batch[b].ep # NULL
  /\ stage' = [stage EXCEPT ![b] = "claimed"]
  /\ how' = [how EXCEPT ![b] = "abort"]
  /\ cur' = [cur EXCEPT ![c] = b]
  /\ stale' = [stale EXCEPT ![c] = FALSE]
  /\ pc' = [pc EXCEPT ![c] = "abort_set"]
  /\ UNCHANGED <<displayVars, bus_ops, epVars, heap, batch, createVars, cb_calls, cb_status,
                 del_refs, frees, released_by, hw_size, toggleVars, misuse,
                 stale_ever, crashed>>

\* batch->error = EAGAIN; usb_transfer_batch_finish(batch);
AbortSet(c) ==
  /\ ~crashed
  /\ pc[c] = "abort_set"
  /\ batch' = [batch EXCEPT ![cur[c]] = abort_outcome(@)]
  /\ pc' = [pc EXCEPT ![c] = "finish_cb"]
  /\ UNCHANGED <<displayVars, bus_ops, epVars, heap, stage, cur, createVars, finishVars,
                 toggleVars, misuseVars, crashed>>

\* -------------------------------------------- usb_transfer_batch_destroy
\* variant: destroy releases the reference twice
destroy_release_twice(rc, bt) == [rc EXCEPT ![bt.ep] = @ - 2]

\* variant: destroy forgets to release the reference
destroy_release_none(rc, bt) == rc

\* endpoint_del_ref(batch->ep): destroy releases the batch's reference
destroy_release(rc, bt) == endpoint_del_ref(rc, bt.ep)

\* assert(batch); assert(batch->ep); look up batch_destroy;
\* endpoint_del_ref(batch->ep);
DestroyDelRef(c) ==
  /\ ~crashed
  /\ pc[c] = "destroy_delref"
  /\ refcnt' = destroy_release(refcnt, batch[cur[c]])
  /\ torn' = endpoint_teardown(torn, refcnt, batch[cur[c]].ep)
  /\ del_refs' = [del_refs EXCEPT ![cur[c]] = @ + 1]
  /\ pc' = [pc EXCEPT ![c] = "destroy_free"]
  /\ UNCHANGED <<displayVars, bus_ops, owner, heap, batch, stage, cur, createVars, cb_calls,
                 cb_status, frees, released_by, how, hw_size, toggleVars,
                 misuseVars, crashed>>

\* variant: the generic free also runs after the backend's batch_destroy
destroy_path_both(ops) ==
  IF ops.batch_destroy THEN <<"batch_destroy", "free">> ELSE <<"free">>

\* if (ops) ops->batch_destroy(batch); else free(batch);
destroy_path(ops) ==
  IF ops.batch_destroy THEN <<"batch_destroy">> ELSE <<"free">>

\* ops->batch_destroy(batch) when the bus overrides it, else free(batch):
\* either way the batch's memory is released
DestroyFree(c) ==
  /\ ~crashed
  /\ pc[c] = "destroy_free"
  /\ heap' = [heap EXCEPT ![cur[c]] = "released"]
  /\ frees' = [frees EXCEPT ![cur[c]] = @ + Len(destroy_path(bus_ops))]
  /\ released_by' = [released_by EXCEPT ![cur[c]] = @ \o destroy_path(bus_ops)]
  /\ stage' = [stage EXCEPT ![cur[c]] = "destroyed"]
  /\ pc' = [pc EXCEPT ![c] = "idle"]
  /\ cur' = [cur EXCEPT ![c] = NullBatch]
  /\ stale' = [stale EXCEPT ![c] = FALSE]
  /\ UNCHANGED <<displayVars, bus_ops, epVars, batch, createVars, cb_calls, cb_status,
                 del_refs, how, hw_size, toggleVars, misuse, stale_ever, crashed>>

\* ------------------------------------------------ contract violations
CompletionSteps == {"abort_set", "finish_cb", "destroy_delref", "destroy_free"}

\* a second completion call on a batch that a call has already claimed:
\* usb_transfer_batch_finish or usb_transfer_batch_abort is entered again, from
\* either context, while the first call runs or after it has returned.  The
\* entry assertions only test the pointers batch and batch->ep.
CompleteAgain(c, b, op) ==
  /\ ~crashed
  /\ pc[c] = "idle"
  /\ stage[b] \in {"claimed", "destroyed"}
  /\ misuse < MaxMisuse
  /\ misuse' = misuse + 1
  /\ cur' = [cur EXCEPT ![c] = b]
  /\ stale' = [stale EXCEPT ![c] = (heap[b] = "released")]
  /\ stale_ever' = (stale_ever \/ heap[b] = "released")
  /\ pc' = [pc EXCEPT ![c] = IF op = "finish" THEN "finish_cb" ELSE "abort_set"]
  /\ UNCHANGED <<displayVars, bus_ops, epVars, heap, batch, stage, createVars, finishVars,
                 toggleVars, crashed>>

\* usb_transfer_batch_destroy(batch) called directly, on a batch no
\* completion call has been made for: destroy asserts batch and batch->ep
\* only
DestroyDirect(c, b) ==
  /\ ~crashed
  /\ pc[c] = "idle"
  /\ stage[b] \in {"created", "submitted", "completed"}
  /\ heap[b] = "live" /\ batch[b].ep # NULL
  /\ misuse < MaxMisuse
  /\ misuse' = misuse + 1
  /\ stage' = [stage EXCEPT ![b] = "claimed"]
  /\ cur' = [cur EXCEPT ![c] = b]
  /\ stale' = [stale EXCEPT ![c] = FALSE]
  /\ pc' = [pc EXCEPT ![c] = "destroy_delref"]
  /\ UNCHANGED <<displayVars, bus_ops, epVars, heap, batch, createVars, finishVars,
                 toggleVars, stale_ever, crashed>>

\* an access to released batch memory (or a second free of it) is undefined:
\* besides going through with the stale contents it can fail an assertion or
\* trap, which ends the task
UseAfterFreeTrap(c) ==
  /\ ~crashed
  /\ pc[c] \in CompletionSteps
  /\ heap[cur[c]] = "released"
  /\ crashed' = TRUE
  /\ UNCHANGED <<displayVars, bus_ops, epVars, heap, batch, stage, pc, cur, createVars,
                 finishVars, toggleVars, misuseVars>>

\* ------------------------------------------------------ specifications
CbStatus == {"ok", "fail"}

\* the steps inside the functions, whatever the inputs
Steps ==
  \/ \E c \in Contexts : InitAddRef(c)
  \/ \E c \in Contexts : InitBind(c)
  \/ \E c \in Contexts, b \in Batches : FinishCall(c, b)
  \/ \E c \in Contexts, b \in Batches : AbortCall(c, b)
  \/ \E c \in Contexts : AbortSet(c)
  \/ \E c \in Contexts : DestroyDelRef(c)
  \/ \E c \in Contexts : DestroyFree(c)

\* Batch lifetime and endpoint references: allocations may fail, endpoints
\* may be unregistered while batches are in flight, callbacks may be absent
\* and may fail; the backend keeps its contract of one completion call per
\* batch.  Transferred sizes and toggle resets are left to SpecOutcome.
Next ==
  \/ Steps
  \/ \E c \in Contexts, e \in Endpoints : CreateCall(c, e)
  \/ \E c \in Contexts, ok \in BOOLEAN : CreateAlloc(c, ok)
  \/ \E c \in Contexts, ok \in BOOLEAN : BackendBatchCreate(c, ok)
  \/ \E b \in Batches, cb \in BOOLEAN : DriverSubmit(b, cb, "RESET_NONE")
  \/ \E b \in Batches, err \in HwErrors : HwComplete(b, err, 0)
  \/ \E e \in Endpoints : OwnerRelease(e)
  \/ \E c \in Contexts, st \in CbStatus : FinishCb(c, st)

Spec == Init /\ [][Next]_vars

\* Outcomes of one batch: every transferred size, toggle reset mode and
\* result of the bus's reset_toggle, on a batch with a registered callback;
\* allocations succeed and the endpoints stay registered.
NoBatchYet == \A b \in Batches : heap[b] = "unused"

NextOutcome ==
  \/ Steps
  \/ \E c \in Contexts, e \in Endpoints : NoBatchYet /\ CreateCall(c, e)
  \/ \E c \in Contexts : CreateAlloc(c, TRUE)
  \/ \E c \in Contexts : BackendBatchCreate(c, TRUE)
  \/ \E b \in Batches, m \in ResetModes : DriverSubmit(b, TRUE, m)
  \/ \E b \in Batches, err \in HwErrors, sz \in Sizes : HwComplete(b, err, sz)
  \/ \E b \in Batches, r \in BusResults : ResetToggle(b, r)
  \/ \E c \in Contexts, st \in CbStatus : FinishCb(c, st)

SpecOutcome == Init /\ [][NextOutcome]_vars

\* Contract violations: besides its one completion call per batch the
\* backend may complete a batch a second time, from either context, or call
\* destroy on a batch directly.
NextMisuse ==
  \/ Steps
  \/ \E c \in Contexts, e \in Endpoints : CreateCall(c, e)
  \/ \E c \in Contexts : CreateAlloc(c, TRUE)
  \/ \E c \in Contexts : BackendBatchCreate(c, TRUE)
  \/ \E b \in Batches : DriverSubmit(b, TRUE, "RESET_NONE")
  \/ \E b \in Batches : HwComplete(b, "EOK", 0)
  \/ \E c \in Contexts : FinishCb(c, "ok")
  \/ \E c \in Contexts, b \in Batches, op \in {"finish", "abort"} :
       CompleteAgain(c, b, op)
  \/ \E c \in Contexts, b \in Batches : DestroyDirect(c, b)
  \/ \E c \in Contexts : UseAfterFreeTrap(c)

SpecMisuse == Init /\ [][NextMisuse]_vars

\* ---------------------------------------------------------- properties
CreateSteps == {"create_alloc", "backend_create", "init_addref", "init_bind"}

\* the batch's callback has run: its finish is past the callback
CallbackDue(b) ==
  \/ stage[b] = "destroyed"
  \/ \E c \in Contexts : cur[c] = b /\ pc[c] \in {"destroy_delref", "destroy_free"}

\* the references the endpoint's registration holds
OwnerRefs(e) == IF owner[e] THEN 1 ELSE 0

\* the batches bound to e that have not released their reference
Holders(e) == {b \in Batches : batch[b].ep = e /\ del_refs[b] = 0}

\* the batches bound to e whose memory has not been released
Alive(e) == {b \in Batches : batch[b].ep = e /\ heap[b] = "live"}

\* C1: a batch's registered completion callback has been invoked exactly
\* once when its finish is past the callback (through finish or abort, with
\* a success or an error outcome), not at all before, and never twice.
C1_CallbackExactlyOnce ==
  \A b \in Batches :
    batch[b].on_complete =>
      Len(cb_calls[b]) = IF CallbackDue(b) THEN 1 ELSE 0

\* C1 witness: one batch finished with an error and one aborted, each with
\* one recorded invocation.
C1_Witness ==
  \E b1, b2 \in Batches :
    /\ stage[b1] = "destroyed" /\ how[b1] = "finish"
    /\ cb_calls[b1] = << <<"ESTALL", 0>> >>
    /\ stage[b2] = "destroyed" /\ how[b2] = "abort"
    /\ Len(cb_calls[b2]) = 1

\* C2: once every batch created on a registered endpoint has been completed
\* (by finish or abort) and every create call produced a batch, the
\* endpoint's reference count is back at its initial value 1.
C2_ReferenceBalance ==
  \A e \in Endpoints :
    ( /\ owner[e]
      /\ alloc_fails = 0
      /\ \A b \in Batches : batch[b].ep = e => stage[b] = "destroyed"
      /\ \A c \in Contexts : pc[c] \in CreateSteps => arg_ep[c] # e )
    => refcnt[e] = 1

\* C2 witness: every batch was created on ep1, some finished and some
\* aborted, and all are destroyed.
C2_Witness ==
  /\ \A b \in Batches : batch[b].ep = "ep1" /\ stage[b] = "destroyed"
  /\ \E b \in Batches : how[b] = "finish"
  /\ \E b \in Batches : how[b] = "abort"
  /\ owner["ep1"] /\ refcnt["ep1"] = 1

\* C3 (as claimed): when completion calls race on a live batch, the callback
\* runs at most once, the endpoint reference is released at most once and
\* the memory is released at most once.
C3_SingleFinishUnderRace ==
  \A b \in Batches :
    ~stale_ever =>
      (Len(cb_calls[b]) <= 1 /\ del_refs[b] <= 1 /\ frees[b] <= 1)

\* C4 (as claimed): a completion call entered on an already finished batch
\* is rejected at entry: it never gets past the callback.
C4_SecondFinishRejected ==
  \A c \in Contexts : stale[c] => pc[c] \in {"finish_cb", "abort_set"}

\* C5 (as claimed): while a batch's memory exists and points at an endpoint,
\* that endpoint has not been torn down.
C5_EndpointOutlivesBatch ==
  \A b \in Batches :
    (heap[b] = "live" /\ batch[b].ep # NULL) => ~torn[batch[b].ep]

\* C6 (as claimed): every endpoint's reference count is non-negative and at
\* least the number of batches created on it and not yet destroyed.
C6_CountCoversBatches ==
  \A e \in Endpoints :
    refcnt[e] >= 0 /\ refcnt[e] >= Cardinality(Alive(e))

\* C7 (as claimed): the callback invoked by abort receives (EAGAIN, 0).
C7_AbortCancelledZero ==
  \A b \in Batches :
    how[b] = "abort" =>
      \A i \in 1..Len(cb_calls[b]) : cb_calls[b][i] = <<"EAGAIN", 0>>

\* C7 (amended): the callback invoked by abort receives EAGAIN, whatever the
\* earlier error, and the transferred size the backend had recorded, which
\* abort leaves alone (0 when the batch never ran).
C7_AbortCancelledSizeKept ==
  \A b \in Batches :
    how[b] = "abort" =>
      \A i \in 1..Len(cb_calls[b]) : cb_calls[b][i] = <<"EAGAIN", hw_size[b]>>

\* C7 witness: an aborted batch with a recorded size of 1 whose callback ran.
C7_Witness ==
  \E b \in Batches :
    how[b] = "abort" /\ hw_size[b] = 1 /\ Len(cb_calls[b]) = 1

\* C8 (as claimed): a generic create whose allocation failed returns NULL
\* and leaves no reference acquired on the endpoint.
C8_FailedCreateLeavesNoRef ==
  \A c \in Contexts :
    (~alloc_ok[c] /\ ~bus_ops.batch_create) =>
      /\ ~crashed
      /\ pc[c] = "idle" =>
           /\ ret[c] = <<NullBatch>>
           /\ refcnt[arg_ep[c]] =
                OwnerRefs(arg_ep[c]) + Cardinality(Holders(arg_ep[c]))

\* the batch's fields are those reset_toggle was called with
ToggleResolved(b) == rt_calls[b] > 0 /\ stage[b] = "completed"

\* every reset_toggle call on b made one call of the bus's reset_toggle, with
\* the batch's target and mode
EachCallReset(b) ==
  /\ Len(bus_resets[b]) = rt_calls[b]
  /\ \A i \in 1..Len(bus_resets[b]) :
       bus_resets[b][i] = <<TargetOf(batch[b].ep), batch[b].toggle_reset_mode>>

\* C9 (as claimed): reset_toggle leaves the bus alone only when there is no
\* error and the mode is NONE; otherwise it hands target and mode to the bus.
C9_NoOpOnlyIfOkAndNone ==
  \A b \in Batches :
    ToggleResolved(b) =>
      IF batch[b].error = "EOK" /\ batch[b].toggle_reset_mode = "RESET_NONE"
        THEN bus_resets[b] = <<>>
        ELSE EachCallReset(b)

\* C9 (amended): reset_toggle leaves the bus alone whenever the outcome
\* carries an error or the mode is NONE; it hands the batch's target and
\* mode to the bus exactly when there is no error and the mode is ENDPOINT
\* or ALL.
C9_NoOpIfErrorOrNone ==
  \A b \in Batches :
    ToggleResolved(b) =>
      IF batch[b].error # "EOK" \/ batch[b].toggle_reset_mode = "RESET_NONE"
        THEN bus_resets[b] = <<>> /\ rt_ret[b] = "EOK"
        ELSE EachCallReset(b)

\* C9 witness: reset_toggle ran on a failed batch with mode ALL.
C9_Witness ==
  \E b \in Batches :
    /\ ToggleResolved(b)
    /\ batch[b].error = "ESTALL"
    /\ batch[b].toggle_reset_mode = "RESET_ALL"

\* C10: reset_toggle on a batch with mode NONE and no error never invokes
\* the bus's reset_toggle and returns EOK.
C10_NoneAndOkNeverResets ==
  \A b \in Batches :
    ( /\ ToggleResolved(b)
      /\ batch[b].toggle_reset_mode = "RESET_NONE"
      /\ batch[b].error = "EOK" )
    => (bus_resets[b] = <<>> /\ rt_ret[b] = "EOK")

\* C10 witness: reset_toggle ran on a successful batch with mode NONE.
C10_Witness ==
  \E b \in Batches :
    /\ ToggleResolved(b)
    /\ batch[b].toggle_reset_mode = "RESET_NONE"
    /\ batch[b].error = "EOK"
    /\ rt_ret[b] = "EOK"

\* C11 (as claimed): reset_toggle on a batch with mode ALL calls the bus's
\* reset_toggle once per call, with the batch's target and mode ALL, and
\* returns the bus's result.
C11_AllAlwaysResets ==
  \A b \in Batches :
    (ToggleResolved(b) /\ batch[b].toggle_reset_mode = "RESET_ALL") =>
      /\ Len(bus_resets[b]) = rt_calls[b]
      /\ \A i \in 1..Len(bus_resets[b]) :
           bus_resets[b][i] = <<TargetOf(batch[b].ep), "RESET_ALL">>
      /\ Len(bus_rets[b]) > 0
      /\ rt_ret[b] = bus_rets[b][Len(bus_rets[b])]

\* C11 (amended): the same for a batch with mode ALL whose outcome carries
\* no error; with an error the bus is not called and EOK is returned.
C11_AllResetsUnlessError ==
  \A b \in Batches :
    (ToggleResolved(b) /\ batch[b].toggle_reset_mode = "RESET_ALL") =>
      IF batch[b].error = "EOK"
        THEN /\ Len(bus_resets[b]) = rt_calls[b]
             /\ \A i \in 1..Len(bus_resets[b]) :
                  bus_resets[b][i] = <<TargetOf(batch[b].ep), "RESET_ALL">>
             /\ Len(bus_rets[b]) = rt_calls[b]
             /\ rt_ret[b] = bus_rets[b][Len(bus_rets[b])]
        ELSE bus_resets[b] = <<>> /\ bus_rets[b] = <<>> /\ rt_ret[b] = "EOK"

\* C11 witness: reset_toggle ran on a successful batch with mode ALL and the
\* bus reported a failure, which was returned.
C11_Witness ==
  \E b \in Batches :
    /\ ToggleResolved(b)
    /\ batch[b].toggle_reset_mode = "RESET_ALL"
    /\ batch[b].error = "EOK"
    /\ bus_rets[b] = <<"EIO">>
    /\ rt_ret[b] = "EIO"

\* a create call returns a batch in this step
CreateReturns(c) ==
  pc[c] = "init_bind" /\ pc'[c] = "idle" /\ cur[c] # NullBatch

\* C12: on a bus without batch_create, a create call that returns a batch
\* returns it bound to the input endpoint, and the endpoint's reference
\* count is one greater than at the entry of the call.
C12_GenericCreateBindsAndAcquires ==
  [][\A c \in Contexts :
       (CreateReturns(c) /\ ~bus_ops.batch_create) =>
         /\ ret'[c] = <<cur[c]>>
         /\ batch'[cur[c]].ep = arg_ep[c]
         /\ refcnt'[arg_ep[c]] = ref_before[c] + 1]_vars

\* C12 witness: a generic create has just returned batch 1 on ep2.
C12_Witness ==
  /\ ~bus_ops.batch_create
  /\ pc["sub"] = "idle" /\ ret["sub"] = <<1>>
  /\ stage[1] = "created" /\ batch[1].ep = "ep2"
  /\ refcnt["ep2"] = 2

\* C16 (as claimed): when the override is invoked, and when init is entered,
\* the create call has already incremented the endpoint's reference count.
C16_CreateAcquiresBeforeDelegating ==
  \A c \in Contexts :
    pc[c] \in {"backend_create", "init_addref"} =>
      refcnt[arg_ep[c]] = ref_before[c] + 1

\* C16 (amended): create acquires nothing itself: up to the entry of init
\* (and at the moment the override is invoked) the count is the one at the
\* entry of the call; the increment is the first statement of init, before
\* the binding.
C16_InitAcquires ==
  \A c \in Contexts :
    /\ pc[c] \in {"create_alloc", "backend_create", "init_addref"} =>
         refcnt[arg_ep[c]] = ref_before[c]
    /\ pc[c] = "init_bind" =>
         /\ refcnt[arg_ep[c]] = ref_before[c] + 1
         /\ cur[c] # NullBatch => batch[cur[c]].ep = NULL

\* C16 witness: the override is about to run and the count is untouched.
C16_Witness ==
  /\ bus_ops.batch_create
  /\ pc["sub"] = "backend_create"
  /\ refcnt[arg_ep["sub"]] = 1

\* C17 (as claimed): init leaves the endpoint's reference count as it was.
C17_InitOnlyBinds ==
  \A c \in Contexts :
    pc[c] \in {"init_addref", "init_bind"} =>
      refcnt[arg_ep[c]] = ref_before[c]

\* C17 (amended): init increments the reference count of ep by one and then
\* records batch.ep = ep; it changes no other field of the batch, no other
\* batch and no other endpoint's count.
C17_InitAcquiresAndBinds ==
  [][\A c \in Contexts :
       /\ (pc[c] = "init_addref" /\ pc'[c] = "init_bind") =>
            /\ refcnt' = [refcnt EXCEPT ![arg_ep[c]] = @ + 1]
            /\ batch' = batch
       /\ CreateReturns(c) =>
            /\ refcnt' = refcnt
            /\ batch' = [batch EXCEPT ![cur[c]] =
                           [batch[cur[c]] EXCEPT !.ep = arg_ep[c]]]]_vars

\* C17 witness: init has acquired the reference and not yet bound the batch.
C17_Witness ==
  /\ pc["sub"] = "init_bind"
  /\ cur["sub"] # NullBatch
  /\ batch[cur["sub"]] = ZeroBatch
  /\ refcnt[arg_ep["sub"]] = ref_before["sub"] + 1

\* a completion call is at work on the batch
InCompletion(b) ==
  \E c \in Contexts : cur[c] = b /\ pc[c] \in CompletionSteps

\* C13: every call of destroy takes exactly one reference off the batch's
\* endpoint (and touches no other endpoint), with and without a
\* batch_destroy override, and then releases the batch through exactly one
\* of the backend's batch_destroy and the generic free.
C13_DestroyReleasesOneRef ==
  /\ [][\A c \in Contexts :
          (pc[c] = "destroy_delref" /\ pc'[c] = "destroy_free") =>
            refcnt' = [refcnt EXCEPT ![batch[cur[c]].ep] = @ - 1]]_vars
  /\ [](\A b \in Batches :
          /\ stage[b] = "destroyed" =>
               /\ del_refs[b] = 1
               /\ released_by[b] =
                    IF bus_ops.batch_destroy THEN <<"batch_destroy">>
                                             ELSE <<"free">>
          /\ stage[b] # "destroyed" => released_by[b] = <<>>)

\* C13 witness: on a bus with a batch_destroy override a batch was destroyed
\* and its endpoint is back at its registration's reference.
C13_Witness ==
  \E b \in Batches :
    /\ bus_ops.batch_destroy
    /\ stage[b] = "destroyed"
    /\ released_by[b] = <<"batch_destroy">>
    /\ owner[batch[b].ep] /\ refcnt[batch[b].ep] = 1

\* C14: finish destroys the batch exactly once, after the callback has
\* returned, whatever status (ok or fail) the callback returned: destroy
\* starts only once the callback has run, a finished batch was destroyed
\* once, and finish never returns with the batch undestroyed.
C14_FinishDestroysAfterCallback ==
  \A b \in Batches :
    batch[b].on_complete =>
      /\ del_refs[b] > 0 => (Len(cb_calls[b]) = 1 /\ cb_status[b] \in CbStatus)
      /\ stage[b] = "destroyed" => (del_refs[b] = 1 /\ frees[b] = 1)
      /\ stage[b] = "claimed" => InCompletion(b)
      /\ cb_status[b] \in CbStatus => CallbackDue(b)

\* C14 witness: a batch whose callback returned a failure is destroyed.
C14_Witness ==
  \E b \in Batches :
    /\ stage[b] = "destroyed"
    /\ cb_status[b] = "fail"
    /\ del_refs[b] = 1 /\ frees[b] = 1

\* C18: a batch completed without a registered callback records no callback
\* invocation, is destroyed exactly once and gives its reference back: once
\* all batches of a registered endpoint are destroyed, none of them having a
\* callback, the count is 1 again.
C18_NoCallbackStillDestroys ==
  /\ \A b \in Batches :
       (~batch[b].on_complete /\ how[b] # "none") =>
         /\ cb_calls[b] = <<>> /\ cb_status[b] = "none"
         /\ stage[b] = "claimed" => InCompletion(b)
         /\ stage[b] = "destroyed" =>
              (del_refs[b] = 1 /\ frees[b] = 1 /\ heap[b] = "released")
  /\ \A e \in Endpoints :
       ( /\ owner[e] /\ alloc_fails = 0
         /\ \A b \in Batches :
              batch[b].ep = e => (stage[b] = "destroyed" /\ ~batch[b].on_complete)
         /\ \A c \in Contexts : pc[c] \in CreateSteps => arg_ep[c] # e )
       => refcnt[e] = 1

\* C18 witness: two batches without callback on ep1, one finished and one
\* aborted, both destroyed.
C18_Witness ==
  \E b1, b2 \in Batches :
    /\ batch[b1].ep = "ep1" /\ batch[b2].ep = "ep1"
    /\ ~batch[b1].on_complete /\ ~batch[b2].on_complete
    /\ how[b1] = "finish" /\ how[b2] = "abort"
    /\ stage[b1] = "destroyed" /\ stage[b2] = "destroyed"
    /\ cb_calls[b1] = <<>> /\ cb_calls[b2] = <<>>
    /\ owner["ep1"] /\ refcnt["ep1"] = 1

\* ------------------------------------------------ display server: client.c

\* list_remove(&wnd->lwindows): the list without the window
list_remove(lst, w) == SelectSeq(lst, LAMBDA x : x # w)

\* wnd->id = client->display->next_wnd_id++: the counter after the call
next_wnd_id_after(n) == n + 1

\* ds_client_add_window(client, wnd); the asserts require wnd to be in no list
AddWindow(c, w) ==
  /\ wnd_client[w] = NoClient
  /\ next_wnd_id <= MaxWndId
  /\ wnd_client' = [wnd_client EXCEPT ![w] = c]
  /\ wnd_id' = [wnd_id EXCEPT ![w] = next_wnd_id]
  /\ next_wnd_id' = next_wnd_id_after(next_wnd_id)
  /\ ids_given' = Append(ids_given, next_wnd_id)
  /\ windows' = [windows EXCEPT ![c] = Append(@, w)]
  /\ UNCHANGED <<usbVars, eventVars, find_ret>>

\* ds_client_remove_window(wnd), for a window that is in a client's list
RemoveWindow(w) ==
  /\ wnd_client[w] # NoClient
  /\ windows' = [windows EXCEPT ![wnd_client[w]] = list_remove(@, w)]
  /\ wnd_client' = [wnd_client EXCEPT ![w] = NoClient]
  /\ UNCHANGED <<usbVars, eventVars, wnd_id, next_wnd_id, ids_given, find_ret>>

\* the test inside the loop of ds_client_find_window: wnd->id == id
wnd_matches_any(w, id) == TRUE
wnd_matches(w, id) == wnd_id[w] = id

\* the loop of ds_client_find_window from position i of the client's list:
\* the first matching window, or NULL at the end of the list
RECURSIVE find_from(_, _, _)
find_from(lst, i, id) ==
  IF i > Len(lst) THEN NullWnd
  ELSE IF wnd_matches(lst[i], id) THEN lst[i]
  ELSE find_from(lst, i + 1, id)

ds_client_find_window(c, id) == find_from(windows[c], 1, id)

FindWindow(c, id) ==
  /\ find_ret' = [client |-> c, id |-> id, wnd |-> ds_client_find_window(c, id)]
  /\ UNCHANGED <<usbVars, eventVars, windows, wnd_client, wnd_id, next_wnd_id,
                 ids_given>>

\* the queue entry ds_client_post_kbd_event fills in
new_wevent(w, e) == [window |-> w, event |-> e, freed |-> FALSE]

\* ds_client_post_kbd_event(client, ewindow, event); ok is the result of the
\* calloc.  list_append stores into the last node of the list: when that
\* node's memory has been freed the store is undefined (it goes through, or
\* it traps).  client->cb->ev_pending is then called once per successful post.
PostKbdEvent(c, w, e, ok) ==
  /\ ~ds_crashed
  /\ ev_posts < MaxEvents
  /\ ev_posts' = ev_posts + 1
  /\ IF ~ok
       THEN /\ post_ret' = [post_ret EXCEPT ![c] = "ENOMEM"]
            /\ UNCHANGED <<events, posted, get_ret, ds_crashed>>
       ELSE \/ /\ events' = [events EXCEPT ![c] = Append(@, new_wevent(w, e))]
               /\ posted' = [posted EXCEPT ![c] =
                               Append(@, [window |-> w, event |-> e])]
               /\ post_ret' = [post_ret EXCEPT ![c] = "EOK"]
               /\ get_ret' = [get_ret EXCEPT ![c] = "none"]
               /\ UNCHANGED ds_crashed
            \/ /\ Len(events[c]) > 0
               /\ events[c][Len(events[c])].freed
               /\ ds_crashed' = TRUE
               /\ UNCHANGED <<events, posted, post_ret, get_ret>>
  /\ UNCHANGED <<usbVars, windowVars, got, ev_gets>>

\* client->events after ds_client_get_event took its first entry: the entry
\* is freed; the list itself is not changed
events_after_get(lst) == [lst EXCEPT ![1].freed = TRUE]

\* ds_client_get_event(client, &ewindow, &event).  When the first node of the
\* list has been freed already, reading it is undefined (any payload may be
\* read, junk stands for it) and so is freeing it again (unnoticed, or a trap).
GetEvent(c, junk) ==
  /\ ~ds_crashed
  /\ ev_gets < MaxGets
  /\ ev_gets' = ev_gets + 1
  /\ IF Len(events[c]) = 0
       THEN /\ get_ret' = [get_ret EXCEPT ![c] = "ENOENT"]
            /\ UNCHANGED <<events, got, ds_crashed>>
       ELSE IF ~events[c][1].freed
       THEN /\ got' = [got EXCEPT ![c] =
                         Append(@, [window |-> events[c][1].window,
                                    event |-> events[c][1].event])]
            /\ events' = [events EXCEPT ![c] = events_after_get(@)]
            /\ get_ret' = [get_ret EXCEPT ![c] = "EOK"]
            /\ UNCHANGED ds_crashed
       ELSE \/ /\ got' = [got EXCEPT ![c] = Append(@, junk)]
               /\ get_ret' = [get_ret EXCEPT ![c] = "EOK"]
               /\ UNCHANGED <<events, ds_crashed>>
            \/ /\ ds_crashed' = TRUE
               /\ UNCHANGED <<events, got, get_ret>>
  /\ UNCHANGED <<usbVars, windowVars, posted, post_ret, ev_posts>>

\* The window lists of the display's clients.
NextWindows ==
  \/ \E c \in Clients, w \in Windows : AddWindow(c, w)
  \/ \E w \in Windows : RemoveWindow(w)
  \/ \E c \in Clients, id \in WndIds : FindWindow(c, id)

SpecWindows == Init /\ [][NextWindows]_vars

\* The event queues of the display's clients.
NextEvents ==
  \/ \E c \in Clients, w \in Windows, e \in KbdEvents, ok \in BOOLEAN :
       PostKbdEvent(c, w, e, ok)
  \/ \E c \in Clients, junk \in Payloads : GetEvent(c, junk)

SpecEvents == Init /\ [][NextEvents]_vars

\* C15 (as claimed): a batch's reference is released and its memory freed
\* only by a destroy that a finish (or abort) call made: a direct destroy of
\* an unfinished batch is rejected before it does either.
C15_DestroyOnlyThroughFinish ==
  \A b \in Batches :
    (del_refs[b] > 0 \/ frees[b] > 0) => how[b] # "none"

IsPrefix(s, t) == Len(s) <= Len(t) /\ SubSeq(t, 1, Len(s)) = s

\* C19 (as claimed): each client's event queue is FIFO and drains: the
\* events ds_client_get_event has returned with EOK are, in order, the first
\* of those posted to the client, each once; and a get answered ENOENT only
\* when every posted event had been returned.
C19_QueueFifoDrains ==
  \A c \in Clients :
    /\ IsPrefix(got[c], posted[c])
    /\ get_ret[c] = "ENOENT" => got[c] = posted[c]

\* window w is linked in client c's window list
InList(c, w) == \E i \in 1..Len(windows[c]) : windows[c][i] = w

\* C20: every ds_client_find_window(client, id) call returns window w exactly
\* when w is in that client's list with w.id = id, and NULL when there is no
\* such window; the ids ds_client_add_window has assigned are pairwise
\* distinct, so no two windows linked anywhere in the display share an id.
C20_FindWindowExact ==
  /\ [][\A c \in Clients, id \in WndIds :
          FindWindow(c, id) =>
            /\ \A w \in Windows :
                 (find_ret'.wnd = w) <=> (InList(c, w) /\ wnd_id[w] = id)
            /\ (find_ret'.wnd = NullWnd) <=>
                 ~ \E w \in Windows : InList(c, w) /\ wnd_id[w] = id]_vars
  /\ [](/\ \A i, j \in 1..Len(ids_given) :
             i # j => ids_given[i] # ids_given[j]
        /\ \A v, w \in Windows :
             (v # w /\ wnd_client[v] # NoClient /\ wnd_client[w] # NoClient)
               => wnd_id[v] # wnd_id[w])

\* a find that had to pass over an earlier window of the client's list to
\* return the second one, while the other client holds a window too
C20_Witness ==
  /\ find_ret.client \in Clients
  /\ Len(windows[find_ret.client]) >= 2
  /\ find_ret.wnd = windows[find_ret.client][2]
  /\ find_ret.id = wnd_id[find_ret.wnd]
  /\ \E c \in Clients : c # find_ret.client /\ Len(windows[c]) >= 1

====
